---- MODULE Spec2Model ----
(***************************************************************************)
(* Model of src/src/converter.ts: convertRawCollection wraps a collection  *)
(* in a Proxy whose get trap replaces fourteen methods by closures that    *)
(* rewrite one argument (preInsert, preUpdate, preReplace, deleteFilter)   *)
(* and/or the result (postFind), and returns every other member as is.     *)
(*                                                                         *)
(* JavaScript values are integers: documents, filters, update specs and    *)
(* results are 1..MaxVal (all truthy); null and undefined are the two      *)
(* falsy values; Thrown marks a transform call that threw.                 *)
(***************************************************************************)
EXTENDS Integers, Sequences, FiniteSets, TLC

VARIABLES
    mode,      \* what the caller supplies: "typed", "untyped", "throwing"
    wrappers,  \* the proxies built so far: <<[target, ts]>>, target 0 = raw collection
    cur,       \* the closure the caller holds and its latest invocation
    ncalls,    \* entries in the raw collection's call log since the caller last let go
    ninv       \* invocations the caller made on the method it holds

vars == <<mode, wrappers, cur, ncalls, ninv>>

\* ---------------------------------------------------------------- bounds
MaxVal == 2
MaxLen == 2
MaxWrappers == 2
MaxCalls == 2

\* ---------------------------------------------------------------- values
V == 1..MaxVal
Null == 0
Undefined == -1
Thrown == -2

Truthy(x) == x > 0

NoError == "none"
UnderlyingError == "UnderlyingError"
TransformError == "TransformError"
TypeError == "TypeError"

Options == {"undefined", "options"}

\* sequences over S of length at most n
RECURSIVE SeqsUpTo(_, _)
SeqsUpTo(S, n) ==
    IF n = 0 THEN {<<>>}
    ELSE LET shorter == SeqsUpTo(S, n - 1)
         IN shorter \cup {Append(s, x) : s \in {t \in shorter : Len(t) = n - 1}, x \in S}

Front(s) == SubSeq(s, 1, Len(s) - 1)

\* ---------------------------------------------------------------- names
middlewareMethods ==
    { "insertOne", "insertMany", "bulkWrite", "updateOne", "replaceOne",
      "updateMany", "deleteOne", "deleteMany", "rename", "drop", "findOne",
      "find", "estimatedDocumentCount", "countDocuments", "distinct",
      "findOneAndDelete", "findOneAndReplace", "findOneAndUpdate",
      "aggregate", "watch", "mapReduce", "initializeUnorderedBulkOp",
      "initializeOrderedBulkOp", "insert", "update", "remove", "count",
      "createIndex", "createIndexes", "dropIndex", "dropIndexes",
      "listIndexes", "indexExists", "indexInformation", "indexes", "stats" }

\* the case labels of the get trap's switch
switchCases ==
    { "insertOne", "insertMany", "updateOne", "updateMany", "replaceOne",
      "findOne", "deleteOne", "deleteMany", "find", "findOneAndDelete",
      "findOneAndReplace", "findOneAndUpdate", "insert", "update" }

\* the members the caller reads off a proxy in this model
Props ==
    {p \in middlewareMethods : p \in switchCases \cup {"bulkWrite", "remove", "count", "stats"}}

\* faulty variant: 'remove' falls into the deleteMany case
switch_remove(prop) ==
    IF prop = "remove" THEN "deleteMany"
    ELSE IF prop \in switchCases THEN prop ELSE "default"

\* switch (prop): the case a property name selects
switch(prop) == IF prop \in switchCases THEN prop ELSE "default"

\* ---------------------------------------------------------------- transforms
\* The Converter's five functions, drawn from a few function kinds.
Apply(kind, x, index) ==
    CASE kind = "rot"  -> (x % MaxVal) + 1
      [] kind = "low"  -> 1
      [] kind = "top"  -> MaxVal
      [] kind = "idx"  -> IF index = Undefined THEN 1 ELSE ((x + index) % MaxVal) + 1
      [] kind = "bomb" -> IF x = 1 THEN Thrown ELSE (x % MaxVal) + 1

Converter ==
    [ A |-> [preInsert |-> "rot", preUpdate |-> "low", preReplace |-> "top",
             postFind |-> "rot", deleteFilter |-> "low"],
      B |-> [preInsert |-> "idx", preUpdate |-> "rot", preReplace |-> "low",
             postFind |-> "top", deleteFilter |-> "top"],
      X |-> [preInsert |-> "bomb", preUpdate |-> "bomb", preReplace |-> "bomb",
             postFind |-> "bomb", deleteFilter |-> "bomb"] ]

Converters(m) == IF m = "throwing" THEN {"A", "X"} ELSE {"A", "B"}

preInsert(ts, obj, index) == Apply(Converter[ts].preInsert, obj, index)
preUpdate(ts, obj) == Apply(Converter[ts].preUpdate, obj, Undefined)
preReplace(ts, obj) == Apply(Converter[ts].preReplace, obj, Undefined)
postFind(ts, obj) == Apply(Converter[ts].postFind, obj, Undefined)
deleteFilter(ts, obj) == Apply(Converter[ts].deleteFilter, obj, Undefined)

TS(w) == w.ts

\* one transform invocation, as an observer of the five functions records it
T(w, fn, arg, out) == [w |-> w, fn |-> fn, arg |-> arg, out |-> out]

\* ---------------------------------------------------------------- closures
\* Arguments of a call: filter f, payload p (a document, update spec or
\* replacement), the document array ds (arr tells whether the caller passed an
\* array), options o.  A closure's argument side yields the arguments it hands
\* to oldMethod (args), the caller's own argument object after the call (a),
\* the transform invocations it made (tl) and the failure it threw (err).
NoArgs == [f |-> Undefined, p |-> Undefined, ds |-> <<>>, arr |-> FALSE, o |-> "undefined"]

Forward(a) == [args |-> a, a |-> a, tl |-> <<>>, err |-> NoError]

\* oldMethod(..., fn(a.p), ...): one transform applied to the payload
RewritePayload(w, fn, out, a) ==
    [ args |-> IF out = Thrown THEN a ELSE [a EXCEPT !.p = out],
      a    |-> a,
      tl   |-> <<T(w, fn, a.p, out)>>,
      err  |-> IF out = Thrown THEN TransformError ELSE NoError ]

\* oldMethod(fn(a.f), options): one transform applied to the filter
RewriteFilter(w, fn, out, a) ==
    [ args |-> IF out = Thrown THEN a ELSE [a EXCEPT !.f = out],
      a    |-> a,
      tl   |-> <<T(w, fn, a.f, out)>>,
      err  |-> IF out = Thrown THEN TransformError ELSE NoError ]

\* docs.map(preInsert): Array.prototype.map calls preInsert(doc, index, array)
\* for each element in order and stops at the first call that throws; a value
\* that is no array has no map method, so the call is a TypeError.
MapPreInsert(w, a) ==
    IF ~a.arr
    THEN [args |-> a, a |-> a, tl |-> <<>>, err |-> TypeError]
    ELSE LET n    == Len(a.ds)
             outs == [i \in 1..n |-> preInsert(TS(w), a.ds[i], i - 1)]
             bad  == {i \in 1..n : outs[i] = Thrown}
             stop == IF bad = {} THEN n ELSE CHOOSE i \in bad : \A j \in bad : i <= j
         IN [ args |-> IF bad = {} THEN [a EXCEPT !.ds = outs] ELSE a,
              a    |-> a,
              tl   |-> [i \in 1..stop |-> T(w, "preInsert", a.ds[i], outs[i])],
              err  |-> IF bad = {} THEN NoError ELSE TransformError ]

\* faulty variant: insertOne hands the caller's document to oldMethod untransformed
insertOne_raw(w, a) == Forward(a)

\* case 'insertOne': (doc, options) => oldMethod(preInsert(doc), options)
insertOne(w, a) == RewritePayload(w, "preInsert", preInsert(TS(w), a.p, Undefined), a)

\* faulty variant: the array is transformed in place, element by element
insertMany_inplace(w, a) ==
    LET r == MapPreInsert(w, a) IN [r EXCEPT !.a = r.args]

\* case 'insertMany': (docs, options) => oldMethod(docs.map(preInsert), options)
insertMany(w, a) == MapPreInsert(w, a)

\* case 'updateOne': (filter, update, options) => oldMethod(filter, preUpdate(update), options)
updateOne(w, a) == RewritePayload(w, "preUpdate", preUpdate(TS(w), a.p), a)

\* case 'updateMany'
updateMany(w, a) == RewritePayload(w, "preUpdate", preUpdate(TS(w), a.p), a)

\* case 'replaceOne': (filter, replacement, options) => oldMethod(filter, preReplace(replacement), options)
replaceOne(w, a) == RewritePayload(w, "preReplace", preReplace(TS(w), a.p), a)

\* faulty variant: deleteOne forwards the caller's filter
deleteOne_raw(w, a) == Forward(a)

\* case 'deleteOne': (filter, options) => oldMethod(deleteFilter(filter), options)
deleteOne(w, a) == RewriteFilter(w, "deleteFilter", deleteFilter(TS(w), a.f), a)

\* case 'deleteMany'
deleteMany(w, a) == RewriteFilter(w, "deleteFilter", deleteFilter(TS(w), a.f), a)

\* case 'findOneAndReplace', argument side
findOneAndReplace(w, a) == RewritePayload(w, "preReplace", preReplace(TS(w), a.p), a)

\* case 'findOneAndUpdate', argument side
findOneAndUpdate(w, a) == RewritePayload(w, "preUpdate", preUpdate(TS(w), a.p), a)

\* case 'insert': (docs, options) => oldMethod(docs.map(preInsert), options)
insert(w, a) == MapPreInsert(w, a)

\* case 'update'
update(w, a) == RewritePayload(w, "preUpdate", preUpdate(TS(w), a.p), a)

\* the argument side of the closure the get trap builds for prop
closureArgs(w, prop, a) ==
    CASE switch(prop) = "insertOne"         -> insertOne(w, a)
      [] switch(prop) = "insertMany"        -> insertMany(w, a)
      [] switch(prop) = "updateOne"         -> updateOne(w, a)
      [] switch(prop) = "updateMany"        -> updateMany(w, a)
      [] switch(prop) = "replaceOne"        -> replaceOne(w, a)
      [] switch(prop) = "deleteOne"         -> deleteOne(w, a)
      [] switch(prop) = "deleteMany"        -> deleteMany(w, a)
      [] switch(prop) = "findOneAndReplace" -> findOneAndReplace(w, a)
      [] switch(prop) = "findOneAndUpdate"  -> findOneAndUpdate(w, a)
      [] switch(prop) = "insert"            -> insert(w, a)
      [] switch(prop) = "update"            -> update(w, a)
      [] OTHER                              -> Forward(a)

\* A settled promise r: [kind ("resolve" | "reject"), val, aux, err].  The
\* result side of a closure yields the settled promise it returns (r) and the
\* transform invocations it made (tl).  then(cb) skips cb on a rejection.
Rejected(e) == [kind |-> "reject", val |-> Undefined, aux |-> Undefined, err |-> e]

\* faulty variant: the falsy result is handed on as it came
findOne_keep(w, r) ==
    IF r.kind = "reject" THEN [r |-> r, tl |-> <<>>]
    ELSE IF Truthy(r.val)
    THEN LET out == postFind(TS(w), r.val)
         IN [ r  |-> IF out = Thrown THEN Rejected(TransformError) ELSE [r EXCEPT !.val = out],
              tl |-> <<T(w, "postFind", r.val, out)>> ]
    ELSE [r |-> r, tl |-> <<>>]

\* faulty variant: a failed lookup is turned into "not found"
findOne_catch(w, r) ==
    IF r.kind = "reject"
    THEN [r |-> [kind |-> "resolve", val |-> Null, aux |-> r.aux, err |-> NoError], tl |-> <<>>]
    ELSE findOne_keep(w, [r EXCEPT !.val = IF Truthy(@) THEN @ ELSE Null])

\* case 'findOne': .then((result) => (result ? postFind(result) : null))
findOne(w, r) ==
    IF r.kind = "reject" THEN [r |-> r, tl |-> <<>>]
    ELSE IF Truthy(r.val)
    THEN LET out == postFind(TS(w), r.val)
         IN [ r  |-> IF out = Thrown THEN Rejected(TransformError) ELSE [r EXCEPT !.val = out],
              tl |-> <<T(w, "postFind", r.val, out)>> ]
    ELSE [r |-> [r EXCEPT !.val = Null], tl |-> <<>>]

\* faulty variant: the rest of the result is dropped
convertModifyResult_noRest(w, r) ==
    IF r.kind = "reject" THEN [r |-> r, tl |-> <<>>]
    ELSE IF Truthy(r.val)
    THEN LET out == postFind(TS(w), r.val)
         IN [ r  |-> IF out = Thrown THEN Rejected(TransformError)
                     ELSE [r EXCEPT !.val = out, !.aux = Undefined],
              tl |-> <<T(w, "postFind", r.val, out)>> ]
    ELSE [r |-> [r EXCEPT !.aux = Undefined], tl |-> <<>>]

\* ({ value, ...result }) => ({ value: value ? postFind(value) : value, ...result })
convertModifyResult(w, r) ==
    IF r.kind = "reject" THEN [r |-> r, tl |-> <<>>]
    ELSE IF Truthy(r.val)
    THEN LET out == postFind(TS(w), r.val)
         IN [ r  |-> IF out = Thrown THEN Rejected(TransformError) ELSE [r EXCEPT !.val = out],
              tl |-> <<T(w, "postFind", r.val, out)>> ]
    ELSE [r |-> r, tl |-> <<>>]

\* the then-callback of the closure the get trap builds for prop
closureResult(w, prop, r) ==
    CASE switch(prop) = "findOne" -> findOne(w, r)
      [] switch(prop) \in {"findOneAndDelete", "findOneAndReplace", "findOneAndUpdate"}
                                  -> convertModifyResult(w, r)
      [] OTHER                    -> [r |-> r, tl |-> <<>>]

\* ---------------------------------------------------------------- cursor
\* The raw collection's find returns a cursor.  cursor.map(fn) only registers
\* fn on the cursor and returns it; when next() makes the cursor produce a
\* document it applies the registered functions to it, in registration order.
\* src: the documents the raw cursor has produced so far; asked: the next()
\* calls of the caller; out: the documents handed to the caller.
NoCursor == [src |-> <<>>, asked |-> 0, out |-> <<>>, maps |-> <<>>, err |-> NoError]

\* faulty variant: find pulls and converts the first document before it returns
find_eager(w, c) ==
    [ c  |-> [c EXCEPT !.src = <<MaxVal>>, !.out = <<postFind(w.ts, MaxVal)>>],
      tl |-> <<T(w, "postFind", MaxVal, postFind(w.ts, MaxVal))>> ]

\* case 'find': (filter, options?) => oldMethod(filter, options).map(postFind)
find(w, c) == [c |-> [c EXCEPT !.maps = Append(@, w)], tl |-> <<>>]

\* what the closure for prop does with the value oldMethod returned, at call time
closureReturn(w, prop, c) ==
    IF switch(prop) = "find" THEN find(w, c) ELSE [c |-> c, tl |-> <<>>]

\* the registered functions applied to one produced document
RECURSIVE ApplyMaps(_, _, _)
ApplyMaps(maps, k, x) ==
    IF k > Len(maps) THEN [val |-> x, tl |-> <<>>, err |-> NoError]
    ELSE LET out == postFind(maps[k].ts, x)
         IN IF out = Thrown
            THEN [val |-> x, tl |-> <<T(maps[k], "postFind", x, out)>>, err |-> TransformError]
            ELSE LET rest == ApplyMaps(maps, k + 1, out)
                 IN [rest EXCEPT !.tl = <<T(maps[k], "postFind", x, out)>> \o @]

\* ---------------------------------------------------------------- the proxy
\* A proxy is [id, target, ts]: its place in wrappers, the place of the
\* collection it was built over (0: the raw collection) and its Converter.
\* A method is the chain of closures around one of the raw collection's own
\* methods: name is that method, fn lists the proxies whose closures wrap it,
\* innermost first (<<>>: the raw method itself), invoked counts the calls made
\* on the raw collection while the method was being read.
Proxy(w) == [id |-> w, target |-> wrappers[w].target, ts |-> wrappers[w].ts]

\* faulty variant: a proxied target is unwrapped and its raw method used
convert_unwrap(oldMethod, w) ==
    [name |-> oldMethod.name, fn |-> <<w>>, invoked |-> oldMethod.invoked]

\* faulty variant: oldMethod is invoked while the closure is built
convert_eager(oldMethod, w) ==
    [name |-> oldMethod.name, fn |-> Append(oldMethod.fn, w), invoked |-> oldMethod.invoked + 1]

\* convert(target, prop, converter): converter(target[prop])
convert(oldMethod, w) ==
    [name |-> oldMethod.name, fn |-> Append(oldMethod.fn, w), invoked |-> oldMethod.invoked]

\* the get trap of proxy w (w = 0: the raw collection's own member)
RECURSIVE get(_, _)
get(w, prop) ==
    IF w = 0 THEN [name |-> prop, fn |-> <<>>, invoked |-> 0]
    ELSE LET oldMethod == get(wrappers[w].target, prop)
         IN IF switch(prop) # "default" THEN convert(oldMethod, Proxy(w)) ELSE oldMethod

\* the closures' argument sides run outermost first, each calling the next
\* synchronously; a throw unwinds through all of them
RECURSIVE Down(_, _, _)
Down(fn, prop, a) ==
    IF fn = <<>> THEN Forward(a)
    ELSE LET r == closureArgs(fn[Len(fn)], prop, a)
         IN IF r.err # NoError THEN r
            ELSE LET d == Down(Front(fn), prop, r.args)
                 IN [args |-> d.args, a |-> r.a, tl |-> r.tl \o d.tl, err |-> d.err]

\* the returned value passes back through the closures innermost first
RECURSIVE Return(_, _, _, _)
Return(fn, k, prop, c) ==
    IF k > Len(fn) THEN [c |-> c, tl |-> <<>>]
    ELSE LET x == closureReturn(fn[k], prop, c)
             rest == Return(fn, k + 1, prop, x.c)
         IN [c |-> rest.c, tl |-> x.tl \o rest.tl]

\* the then-callbacks run innermost first once the raw promise settles
RECURSIVE Then(_, _, _, _)
Then(fn, k, prop, r) ==
    IF k > Len(fn) THEN [r |-> r, tl |-> <<>>]
    ELSE LET x == closureResult(fn[k], prop, r)
             rest == Then(fn, k + 1, prop, x.r)
         IN [r |-> rest.r, tl |-> x.tl \o rest.tl]

\* ---------------------------------------------------------------- inputs
ModifyProps == {"findOneAndDelete", "findOneAndReplace", "findOneAndUpdate"}

ArgsFor(prop, m) ==
    CASE prop = "insertOne" ->
            {[NoArgs EXCEPT !.p = p, !.o = o] : p \in V, o \in Options}
      [] prop \in {"insertMany", "insert"} ->
            {[NoArgs EXCEPT !.ds = ds, !.arr = TRUE, !.o = o] :
                 ds \in SeqsUpTo(V, MaxLen), o \in Options}
            \cup (IF prop = "insert" /\ m = "untyped"
                  THEN {[NoArgs EXCEPT !.p = p, !.o = o] : p \in V, o \in Options}
                  ELSE {})
      [] prop \in {"findOne", "find", "deleteOne", "deleteMany", "findOneAndDelete"} ->
            {[NoArgs EXCEPT !.f = f, !.o = o] : f \in V, o \in Options}
      [] OTHER ->
            {[NoArgs EXCEPT !.f = f, !.p = p, !.o = o] : f \in V, p \in V, o \in Options}

\* what the raw collection's promise can settle to
Outcomes(prop) ==
    {Rejected(UnderlyingError)} \cup
    ( CASE prop = "findOne" ->
              {[kind |-> "resolve", val |-> v, aux |-> Undefined, err |-> NoError] :
                   v \in V \cup {Null, Undefined}}
        [] prop \in ModifyProps ->
              {[kind |-> "resolve", val |-> v, aux |-> x, err |-> NoError] :
                   v \in V \cup {Null, Undefined}, x \in V}
        [] OTHER ->
              {[kind |-> "resolve", val |-> v, aux |-> Undefined, err |-> NoError] : v \in V} )

\* ---------------------------------------------------------------- state
NoOutcome == [kind |-> "none", val |-> Undefined, aux |-> Undefined, err |-> NoError]

\* w, prop: the proxy and member the caller read; m: the method it got;
\* a0: the arguments of its latest call; a: its argument objects after the
\* call; uop, u: the raw method that call reached and the arguments it
\* received; called: the calls it made on the raw collection; tl: the
\* transform invocations so far; uo: what the raw method did; ret: what the
\* caller got; cs: the cursor it got.
Idle ==
    [ w |-> 0, prop |-> "", m |-> [name |-> "", fn |-> <<>>, invoked |-> 0],
      a0 |-> NoArgs, a |-> NoArgs, uop |-> "", u |-> NoArgs, called |-> 0, tl |-> <<>>,
      uo |-> NoOutcome, ret |-> [NoOutcome EXCEPT !.kind = "idle"], cs |-> NoCursor ]

Init(m) ==
    /\ mode = m
    /\ wrappers = <<>>
    /\ cur = Idle
    /\ ncalls = 0
    /\ ninv = 0

\* convertRawCollection(collection, converter): a new Proxy over collection
\* (the caller passes another Converter than to the proxy it built before)
convertRawCollection(collection, ts) ==
    /\ Len(wrappers) < MaxWrappers
    /\ wrappers # <<>> => ts # wrappers[Len(wrappers)].ts
    /\ wrappers' = Append(wrappers, [target |-> collection, ts |-> ts])
    /\ UNCHANGED <<mode, cur, ncalls, ninv>>

\* the caller reads member prop off proxy w
Get(w, prop) ==
    LET m == get(w, prop)
    IN /\ cur.ret.kind = "idle"
       /\ cur' = [Idle EXCEPT !.w = w, !.prop = prop, !.m = m, !.ret.kind = "got"]
       /\ ncalls' = ncalls + m.invoked
       /\ UNCHANGED <<mode, wrappers, ninv>>

\* an invocation of the method the caller holds; the raw method, once reached,
\* logs the call and throws, returns a cursor (find) or returns a promise
Invoke(a0, throws) ==
    /\ ninv < MaxCalls
    /\ ninv' = ninv + 1
    /\ LET d == Down(cur.m.fn, cur.prop, a0)
           invoked == [Idle EXCEPT !.w = cur.w, !.prop = cur.prop, !.m = cur.m,
                                   !.a0 = a0, !.a = d.a, !.tl = d.tl]
           reached == [invoked EXCEPT !.uop = cur.m.name, !.u = d.args, !.called = 1]
       IN IF d.err # NoError
          THEN /\ cur' = [invoked EXCEPT !.ret = [NoOutcome EXCEPT !.kind = "throw", !.err = d.err]]
               /\ ncalls' = ncalls
          ELSE /\ ncalls' = ncalls + 1
               /\ cur' =
                    IF throws
                    THEN [reached EXCEPT
                              !.uo = [NoOutcome EXCEPT !.kind = "throw", !.err = UnderlyingError],
                              !.ret = [NoOutcome EXCEPT !.kind = "throw", !.err = UnderlyingError]]
                    ELSE IF cur.m.name = "find"
                    THEN LET back == Return(cur.m.fn, 1, cur.prop, NoCursor)
                         IN [reached EXCEPT
                                 !.uo = [NoOutcome EXCEPT !.kind = "cursor"],
                                 !.ret = [NoOutcome EXCEPT !.kind = "cursor"],
                                 !.cs = back.c, !.tl = d.tl \o back.tl]
                    ELSE [reached EXCEPT
                              !.uo = [NoOutcome EXCEPT !.kind = "pending"],
                              !.ret = [NoOutcome EXCEPT !.kind = "pending"]]
    /\ UNCHANGED <<mode, wrappers>>

\* the caller invokes the method it has just read
Call(a0, throws) ==
    /\ cur.ret.kind = "got"
    /\ Invoke(a0, throws)

\* the caller invokes the same method again, with the same arguments
CallAgain(throws) ==
    /\ cur.ret.kind \notin {"idle", "got"}
    /\ Invoke(cur.a0, throws)

\* the raw collection's promise settles and the then-callbacks run
Settle(r) ==
    /\ cur.ret.kind = "pending"
    /\ LET t == Then(cur.m.fn, 1, cur.prop, r)
       IN cur' = [cur EXCEPT !.uo = r, !.ret = t.r, !.tl = @ \o t.tl]
    /\ UNCHANGED <<mode, wrappers, ncalls, ninv>>

\* the caller asks the cursor for its next document: the raw cursor fails, or
\* produces document x and applies the registered functions to it
CursorNext(x, fails) ==
    /\ cur.ret.kind = "cursor"
    /\ cur.cs.err = NoError
    /\ cur.cs.asked < MaxLen
    /\ IF fails
       THEN cur' = [cur EXCEPT !.cs.asked = @ + 1, !.cs.err = UnderlyingError]
       ELSE LET m == ApplyMaps(cur.cs.maps, 1, x)
            IN cur' = [cur EXCEPT !.cs.asked = @ + 1,
                                  !.cs.src = Append(@, x),
                                  !.cs.out = IF m.err = NoError THEN Append(@, m.val) ELSE @,
                                  !.cs.err = m.err,
                                  !.tl = @ \o m.tl]
    /\ UNCHANGED <<mode, wrappers, ncalls, ninv>>

\* the caller lets go of the method and of what it returned
Release ==
    /\ cur.ret.kind # "idle"
    /\ cur' = Idle
    /\ ncalls' = 0
    /\ ninv' = 0
    /\ UNCHANGED <<mode, wrappers>>

Next ==
    \/ \E c \in 0..Len(wrappers), ts \in Converters(mode) : convertRawCollection(c, ts)
    \/ \E w \in 1..Len(wrappers), prop \in Props : Get(w, prop)
    \/ \E a0 \in ArgsFor(cur.prop, mode), throws \in BOOLEAN : Call(a0, throws)
    \/ \E throws \in BOOLEAN : CallAgain(throws)
    \/ \E r \in Outcomes(cur.m.name) : Settle(r)
    \/ \E x \in V, fails \in BOOLEAN : CursorNext(x, fails)
    \/ Release

Spec == Init("typed") /\ [][Next]_vars
SpecUntyped == Init("untyped") /\ [][Next]_vars
SpecThrowing == Init("throwing") /\ [][Next]_vars

\* ================================================================ properties
\* What an observer of the caller, the five functions and the raw collection sees.
Invoked == cur.ret.kind \notin {"idle", "got"}

\* the method was read off a proxy built directly over the raw collection
Direct == Invoked /\ wrappers[cur.w].target = 0

\* the method was read off a proxy built over a proxy built over the raw collection
Layered ==
    /\ Invoked
    /\ wrappers[cur.w].target # 0
    /\ wrappers[wrappers[cur.w].target].target = 0

\* the Converter of the proxy the method was read off, and of the proxy under it
Outer == wrappers[cur.w].ts
Inner == wrappers[wrappers[cur.w].target].ts

\* number of invocations of transform fn during the latest call
Count(fn) == Cardinality({i \in DOMAIN cur.tl : cur.tl[i].fn = fn})

InterceptedNames ==
    { "insertOne", "insertMany", "insert", "updateOne", "updateMany", "update",
      "replaceOne", "deleteOne", "deleteMany", "findOne", "find",
      "findOneAndDelete", "findOneAndReplace", "findOneAndUpdate" }

UpdateNames == {"updateOne", "updateMany", "update"}
FindAndNames == {"findOneAndDelete", "findOneAndReplace", "findOneAndUpdate"}

\* C1 -- Pass-through identity: a member whose name is not one of the fourteen
\* intercepted names is the raw collection's own method; invoking it makes
\* exactly one call on the raw collection, of that method, with the caller's
\* arguments, returns what that call returns and invokes no transform.
C1_PassThrough ==
    (Invoked /\ cur.prop \notin InterceptedNames) =>
        /\ cur.m.fn = <<>>
        /\ cur.called = 1
        /\ ncalls = ninv
        /\ cur.uop = cur.prop
        /\ cur.u = cur.a0
        /\ cur.a = cur.a0
        /\ cur.tl = <<>>
        /\ cur.ret = cur.uo

C1_Witness ==
    /\ Layered
    /\ cur.prop = "remove"
    /\ cur.ret.kind = "resolve"
    /\ ninv = 2

\* C2 -- Write transform application: insertOne hands preInsert(doc) to the raw
\* insertOne, updateOne / updateMany / update hand preUpdate(update), and
\* replaceOne hands preReplace(replacement), in the same argument position, with
\* filter and options unchanged; the raw method's result is returned as it is.
C2_WriteTransform ==
    (Direct /\ cur.prop \in {"insertOne", "replaceOne"} \cup UpdateNames) =>
        /\ cur.called = 1
        /\ cur.uop = cur.prop
        /\ cur.u.p = ( CASE cur.prop = "insertOne"  -> preInsert(Outer, cur.a0.p, Undefined)
                         [] cur.prop = "replaceOne" -> preReplace(Outer, cur.a0.p)
                         [] OTHER                   -> preUpdate(Outer, cur.a0.p) )
        /\ cur.u.f = cur.a0.f
        /\ cur.u.o = cur.a0.o
        /\ cur.ret = cur.uo

C2_Witness ==
    /\ Direct
    /\ cur.prop = "insertOne"
    /\ cur.u.p # cur.a0.p
    /\ cur.a0.o = "options"
    /\ cur.ret.kind = "resolve"

\* C3 -- Delete filter rewrite: deleteOne / deleteMany call the raw method of
\* the same name exactly once, with deleteFilter(filter) and the caller's
\* options, and return its result unchanged.
C3_DeleteFilter ==
    (Direct /\ cur.prop \in {"deleteOne", "deleteMany"}) =>
        /\ cur.called = 1
        /\ ncalls = ninv
        /\ cur.uop = cur.prop
        /\ cur.u.f = deleteFilter(Outer, cur.a0.f)
        /\ cur.u.o = cur.a0.o
        /\ cur.ret = cur.uo

C3_Witness ==
    /\ Direct
    /\ cur.prop = "deleteMany"
    /\ cur.u.f # cur.a0.f
    /\ cur.ret.kind = "resolve"

\* C4 as stated -- Read transform application: findOne returns postFind(S) when
\* the raw findOne resolves to a document S, and otherwise returns the very
\* value the raw findOne resolved to, without invoking postFind.
C4_AsStated ==
    (Direct /\ cur.prop = "findOne" /\ cur.uo.kind = "resolve") =>
        /\ cur.ret.kind = "resolve"
        /\ IF Truthy(cur.uo.val)
           THEN cur.ret.val = postFind(Outer, cur.uo.val)
           ELSE cur.ret.val = cur.uo.val /\ Count("postFind") = 0

\* C4 -- Read transform application: findOne returns postFind(S) when the raw
\* findOne resolves to a document S; when it resolves to a falsy value (null or
\* undefined) the caller receives null and postFind is not invoked.
C4_ReadTransform ==
    (Direct /\ cur.prop = "findOne" /\ cur.uo.kind = "resolve") =>
        /\ cur.ret.kind = "resolve"
        /\ IF Truthy(cur.uo.val)
           THEN cur.ret.val = postFind(Outer, cur.uo.val) /\ Count("postFind") = 1
           ELSE cur.ret.val = Null /\ Count("postFind") = 0

C4_Witness ==
    /\ Direct
    /\ cur.prop = "findOne"
    /\ cur.uo.kind = "resolve"
    /\ cur.uo.val = Undefined
    /\ cur.ret.val = Null

\* C5 -- Modify-result field preservation: for findOneAndDelete / Replace /
\* Update the returned value is postFind of the raw result's value when there
\* is one, and the raw result's value itself (with postFind not invoked) when
\* there is none; the other fields of the result are unchanged either way.
C5_ModifyResult ==
    (Direct /\ cur.prop \in FindAndNames /\ cur.uo.kind = "resolve") =>
        /\ cur.ret.kind = "resolve"
        /\ cur.ret.aux = cur.uo.aux
        /\ IF Truthy(cur.uo.val)
           THEN cur.ret.val = postFind(Outer, cur.uo.val) /\ Count("postFind") = 1
           ELSE cur.ret.val = cur.uo.val /\ Count("postFind") = 0

C5_Witness ==
    /\ Direct
    /\ cur.prop = "findOneAndUpdate"
    /\ cur.uo.kind = "resolve"
    /\ Truthy(cur.uo.val)
    /\ cur.ret.val # cur.uo.val
    /\ cur.ret.aux = MaxVal

\* C6 -- Sequence laziness and order: calling find produces and converts
\* nothing; after K next() calls the raw cursor has produced at most K
\* documents and postFind has run at most K times; the i-th document the caller
\* receives is postFind of the i-th document the raw cursor produced.
C6_LazyFind ==
    (Direct /\ cur.prop = "find" /\ cur.ret.kind = "cursor") =>
        /\ cur.called = 1
        /\ Len(cur.cs.src) <= cur.cs.asked
        /\ Count("postFind") <= cur.cs.asked
        /\ Count("postFind") = Len(cur.cs.src)
        /\ Len(cur.cs.out) = Len(cur.cs.src)
        /\ \A i \in 1..Len(cur.cs.out) : cur.cs.out[i] = postFind(Outer, cur.cs.src[i])

C6_Witness ==
    /\ Direct
    /\ cur.prop = "find"
    /\ cur.cs.asked = 2
    /\ Len(cur.cs.out) = 2
    /\ cur.cs.out[1] # cur.cs.out[2]
    /\ cur.cs.out # cur.cs.src

\* the documents of an insertMany / insert call, as the sequence the claim
\* speaks of: the array passed, or the one document passed
InputDocs == IF cur.a0.arr THEN cur.a0.ds ELSE <<cur.a0.p>>

\* C7 as stated -- Per-document insert transform: insertMany and insert, called
\* with one document or with a sequence, call the raw method once with a
\* sequence of the same length whose i-th element is preInsert applied to the
\* i-th input document alone, with options unchanged and the input not mutated.
C7_AsStated ==
    (Direct /\ cur.prop \in {"insertMany", "insert"}) =>
        /\ cur.called = 1
        /\ Len(cur.u.ds) = Len(InputDocs)
        /\ \A i \in 1..Len(InputDocs) :
               i <= Len(cur.u.ds) /\ cur.u.ds[i] = preInsert(Outer, InputDocs[i], Undefined)
        /\ cur.u.o = cur.a0.o
        /\ cur.a = cur.a0

\* C7 -- Per-document insert transform: insertMany and insert, called with an
\* array of documents, call the raw method once with an array of the same
\* length whose i-th element is what preInsert returns when Array.prototype.map
\* calls it for the i-th document (preInsert(doc, i - 1, docs)), with options
\* unchanged and the caller's array not mutated.
C7_PerDocument ==
    (Direct /\ cur.prop \in {"insertMany", "insert"} /\ cur.a0.arr) =>
        /\ cur.called = 1
        /\ cur.uop = cur.prop
        /\ cur.u.arr
        /\ Len(cur.u.ds) = Len(cur.a0.ds)
        /\ \A i \in 1..Len(cur.a0.ds) : cur.u.ds[i] = preInsert(Outer, cur.a0.ds[i], i - 1)
        /\ cur.u.o = cur.a0.o
        /\ cur.a = cur.a0

C7_Witness ==
    /\ Direct
    /\ cur.prop = "insert"
    /\ cur.a0.arr
    /\ Len(cur.a0.ds) = 2
    /\ cur.called = 1
    /\ cur.u.ds # cur.a0.ds
    /\ cur.a0.o = "options"

\* The two Converters of a proxy built over a proxy, applied one after the
\* other to the transformed argument of a write: first, then second.
WriteThrough(first, second) ==
    CASE cur.prop = "insertOne" ->
            cur.u.p = preInsert(second, preInsert(first, cur.a0.p, Undefined), Undefined)
      [] cur.prop \in UpdateNames \cup {"findOneAndUpdate"} ->
            cur.u.p = preUpdate(second, preUpdate(first, cur.a0.p))
      [] cur.prop \in {"replaceOne", "findOneAndReplace"} ->
            cur.u.p = preReplace(second, preReplace(first, cur.a0.p))
      [] cur.prop \in {"deleteOne", "deleteMany"} ->
            cur.u.f = deleteFilter(second, deleteFilter(first, cur.a0.f))
      [] cur.prop \in {"insertMany", "insert"} ->
            /\ Len(cur.u.ds) = Len(cur.a0.ds)
            /\ \A i \in 1..Len(cur.a0.ds) :
                   cur.u.ds[i] = preInsert(second, preInsert(first, cur.a0.ds[i], i - 1), i - 1)
      [] OTHER -> cur.u = cur.a0

\* ... and to what a read returns
ReadThrough(first, second) ==
    /\ (cur.prop \in {"findOne"} \cup FindAndNames
            /\ cur.uo.kind = "resolve" /\ Truthy(cur.uo.val)) =>
           cur.ret.val = postFind(second, postFind(first, cur.uo.val))
    /\ cur.prop = "find" =>
           /\ Len(cur.cs.out) = Len(cur.cs.src)
           /\ \A i \in 1..Len(cur.cs.out) :
                  cur.cs.out[i] = postFind(second, postFind(first, cur.cs.src[i]))

\* C8 as stated -- Composability: through a proxy built with a second Converter
\* over a proxy, every intercepted method applies the first-built proxy's
\* function first and the second's after it, for write arguments and read
\* results alike, and calls the raw method exactly once.
C8_AsStated ==
    (Layered /\ cur.prop \in InterceptedNames) =>
        /\ cur.called = 1
        /\ WriteThrough(Inner, Outer)
        /\ ReadThrough(Inner, Outer)

\* C8 -- Composability: through a proxy built with a second Converter over a
\* proxy, every intercepted method calls the raw method exactly once; a write
\* argument passes through the second-built (outer) proxy's function first and
\* the first-built (inner) proxy's after it; a read result passes through the
\* first-built proxy's postFind first and the second-built proxy's after it.
C8_Composition ==
    (Layered /\ cur.prop \in InterceptedNames) =>
        /\ cur.called = 1
        /\ ncalls = ninv
        /\ cur.uop = cur.prop
        /\ WriteThrough(Outer, Inner)
        /\ ReadThrough(Inner, Outer)

C8_Witness ==
    /\ Layered
    /\ cur.prop = "findOneAndUpdate"
    /\ cur.uo.kind = "resolve"
    /\ Truthy(cur.uo.val)
    /\ cur.u.p = preUpdate(Inner, preUpdate(Outer, cur.a0.p))
    /\ cur.u.p # preUpdate(Outer, preUpdate(Inner, cur.a0.p))
    /\ cur.ret.val # postFind(Inner, postFind(Outer, cur.uo.val))

\* a transform invocation of the latest call threw
Threw(i) == i \in DOMAIN cur.tl /\ cur.tl[i].out = Thrown

\* C9 -- Error transparency: a throw or a rejection of the raw method reaches
\* the caller as the same throw or rejection, with no postFind invoked for it;
\* a throwing transform is the last transform invoked, a throwing argument
\* transform throws to the caller synchronously and leaves the raw method
\* uninvoked, a throwing postFind rejects the promise or fails the cursor; the
\* raw method is never invoked twice for one call.
C9_ErrorTransparency ==
    /\ cur.called <= 1
    /\ ncalls <= ninv
    /\ cur.uo.kind \in {"throw", "reject"} =>
           /\ cur.ret = cur.uo
           /\ cur.ret.err = UnderlyingError
           /\ Count("postFind") = 0
    /\ (cur.ret.kind = "cursor" /\ cur.cs.err = UnderlyingError) =>
           Count("postFind") = Len(cur.cs.src) * Len(cur.cs.maps)
    /\ \A i \in DOMAIN cur.tl : Threw(i) =>
           /\ i = Len(cur.tl)
           /\ IF cur.tl[i].fn # "postFind"
              THEN /\ cur.ret.kind = "throw"
                   /\ cur.ret.err = TransformError
                   /\ cur.called = 0
              ELSE /\ cur.called = 1
                   /\ IF cur.prop = "find"
                      THEN cur.ret.kind = "cursor" /\ cur.cs.err = TransformError
                      ELSE cur.ret.kind = "reject" /\ cur.ret.err = TransformError
    /\ (Invoked /\ \A i \in DOMAIN cur.tl : ~Threw(i)) =>
           /\ cur.called = 1
           /\ cur.ret.err \in {NoError, UnderlyingError}
           /\ cur.cs.err \in {NoError, UnderlyingError}

C9_Witness ==
    /\ Layered
    /\ cur.prop = "findOne"
    /\ cur.uo.kind = "resolve"
    /\ cur.ret.kind = "reject"
    /\ cur.ret.err = TransformError
    /\ Len(cur.tl) = 2

====
